---- MODULE Spec2Model ----
(***************************************************************************)
(* A model of simnet.py: the Encoder's distance function, the SimNet       *)
(* (contrastive) loss, the threshold evaluation, and the script's epoch    *)
(* loop with its closing visualization.                                    *)
(*                                                                         *)
(* Real numbers are fixed point: a distance is an integer count of         *)
(* 1/One units, a squared distance or a loss a count of 1/One^2 units,     *)
(* and a mean is the record [num, den].  Labels are the integers 0 and 1.  *)
(* The convolutional forward pass is not modelled: an image stands for     *)
(* the embedding Encoder.call returns for it.                              *)
(***************************************************************************)
EXTENDS Integers, Sequences, FiniteSets

\* ------------------------------------------------------------------ bounds
MaxBatch == 2       \* pairs in a batch handed to simnet_loss / test_step
EmbDim == 2         \* length of an embedding
MaxCoord == 4       \* largest embedding coordinate, in 1/One units
MaxBatches == 2     \* training sets hold up to MaxBatches + 1 batches, less one pair

\* ------------------------------------------------------- program constants
One == 4            \* the literal 1.0 (the margin), in fixed-point units
Threshold == 2      \* the literal 0.5 passed by test_step, in the same units
n_epoch == 10
batch_size == 180

VARIABLES
    \* ---- the script (__main__)
    pc,             \* position of the script
    n_train,        \* x_train.shape[0]
    version,        \* number of updates applied to model.trainable_variables
    epoch_it,       \* how many values of range(n_epoch) the loop has taken
    epoch,          \* the loop variable
    n_batches,
    sections,       \* the list np.array_split returned, as <<start, size>>
    batch_it,       \* how many sections the inner loop has taken
    epoch_loss,     \* [terms]: how many train_step losses the running sum holds
    mean_loss,      \* [num, den] after line 141
    step,           \* the running train_step: the parameter versions its two
                    \* forward passes read, the version its loss was computed
                    \* from, and the terms of the scalar it differentiates
    evals,          \* this epoch's test_step calls: <<[set, read]>>
    reports,        \* what tf.print has written, one record per call
    plot_count,     \* calls of plot_embedding
    \* ---- one call of a function on a batch
    fn_pc,          \* which function has been applied to the batch
    target, x1, x2, \* the labels and the two embedding batches
    distance_vector,
    average_loss,
    out,
    accuracy,
    dist_ret

script_vars == <<pc, n_train, version, epoch_it, epoch, n_batches, sections,
                 batch_it, epoch_loss, mean_loss, step, evals, reports, plot_count>>
fn_vars == <<fn_pc, target, x1, x2, distance_vector, average_loss, out,
             accuracy, dist_ret>>
vars == <<script_vars, fn_vars>>

\* ============================================================ tensor helpers
RECURSIVE SumSeq(_)
SumSeq(s) == IF s = <<>> THEN 0 ELSE Head(s) + SumSeq(Tail(s))

Max(a, b) == IF a >= b THEN a ELSE b

IsSquare(n) == \E r \in 0..n : r * r = n

\* tf.sqrt on a value the fixed point holds exactly
Sqrt(n) == CHOOSE r \in 0..n : r * r = n

\* A tensor is [rank, val]: val is a number (rank 0), a sequence of numbers
\* (rank 1) or a sequence of rows (rank 2).
Scalar(v) == [rank |-> 0, val |-> v]
Vector(v) == [rank |-> 1, val |-> v]
Matrix(v) == [rank |-> 2, val |-> v]

\* tf.pow(t, 2), element by element
Pow2(t) ==
    CASE t.rank = 0 -> Scalar(t.val * t.val)
      [] t.rank = 1 -> Vector([j \in 1..Len(t.val) |-> t.val[j] * t.val[j]])
      [] t.rank = 2 -> Matrix([i \in 1..Len(t.val) |->
                                 [j \in 1..Len(t.val[i]) |-> t.val[i][j] * t.val[i][j]]])

\* tf.reduce_sum(t, 0): the sum along the first axis
ReduceSum0(t) ==
    CASE t.rank = 1 -> Scalar(SumSeq(t.val))
      [] t.rank = 2 -> Vector([j \in 1..Len(t.val[1]) |->
                                 SumSeq([i \in 1..Len(t.val) |-> t.val[i][j]])])

\* tf.sqrt(t), element by element
TfSqrt(t) ==
    CASE t.rank = 0 -> Scalar(Sqrt(t.val))
      [] t.rank = 1 -> Vector([j \in 1..Len(t.val) |-> Sqrt(t.val[j])])

\* Encoder.distance without the square root
distance_squared(difference) == ReduceSum0(Pow2(difference))

\* Encoder.distance
distance(difference) == TfSqrt(ReduceSum0(Pow2(difference)))

\* x - y on two batches of embeddings
Sub(a, b) == [i \in 1..Len(a) |-> [j \in 1..Len(a[i]) |-> a[i][j] - b[i][j]]]

\* tf.map_fn(lambda x: Encoder.distance(x), rows): one call per row
MapDistance(rows) == [i \in 1..Len(rows) |-> distance(Vector(rows[i])).val]

\* the lambda of simnet_loss without the hinge at the margin
LossLambda_nohinge(tgt, d) ==
    [j \in 1..Len(tgt) |->
        tgt[j] * (d * d) + (1 - tgt[j]) * ((One - d) * (One - d))]

\* the lambda of simnet_loss: `target` is the whole label vector, so the
\* value for one distance is a vector with one entry per label
LossLambda(tgt, d) ==
    [j \in 1..Len(tgt) |->
        tgt[j] * (d * d) + (1 - tgt[j]) * (Max(0, One - d) * Max(0, One - d))]

\* tf.reduce_mean over every element of a stack of rows
ReduceMean(rows) ==
    [num |-> SumSeq([i \in 1..Len(rows) |-> SumSeq(rows[i])]),
     den |-> SumSeq([i \in 1..Len(rows) |-> Len(rows[i])])]

simnet_loss(tgt, a, b) ==
    LET difference == Sub(a, b)
        dv == MapDistance(difference)
        loss == [i \in 1..Len(dv) |-> LossLambda(tgt, dv[i])]
    IN  [distance_vector |-> dv, average_loss |-> ReduceMean(loss)]

\* make_predict with a strict comparison against the threshold
make_predict_strict(a, b, threshold) ==
    LET o == Sub(b, a)
        dv == MapDistance(o)
    IN  [i \in 1..Len(dv) |-> IF dv[i] < threshold THEN 0 ELSE 1]

\* make_predict with the two labels exchanged
make_predict_swapped(a, b, threshold) ==
    LET o == Sub(b, a)
        dv == MapDistance(o)
    IN  [i \in 1..Len(dv) |-> IF dv[i] <= threshold THEN 1 ELSE 0]

\* Encoder.make_predict, from the two embedding batches self.call returned
make_predict(a, b, threshold) ==
    LET o == Sub(b, a)
        dv == MapDistance(o)
    IN  [i \in 1..Len(dv) |-> IF dv[i] <= threshold THEN 0 ELSE 1]

\* tf.keras.metrics.binary_accuracy(y_true, y_pred): y_pred is cut at 0.5 and
\* the mean of the element-wise equality is returned
binary_accuracy(y_true, y_pred) ==
    LET cut == [i \in 1..Len(y_pred) |-> IF 2 * y_pred[i] > 1 THEN 1 ELSE 0]
    IN  [num |-> Cardinality({i \in 1..Len(y_true) : y_true[i] = cut[i]}),
         den |-> Len(y_true)]

test_step(a, b, y_test) ==
    LET o == make_predict(a, b, Threshold)
    IN  [out |-> o, accuracy |-> binary_accuracy(o, y_test)]

\* ================================================= one call on one batch
\* The inputs of one call.  The left embedding of a pair is one of two anchors,
\* the right one any embedding with non-increasing coordinates, and only the
\* pairs whose distance the fixed point holds exactly are drawn.
Anchors == {[j \in 1..EmbDim |-> 0], [j \in 1..EmbDim |-> 1]}
Emb == {v \in [1..EmbDim -> 0..MaxCoord] : \A j \in 1..(EmbDim - 1) : v[j] >= v[j + 1]}

PairInputs ==
    {p \in [y : {0, 1}, a : Anchors, b : Emb] :
        IsSquare(SumSeq([j \in 1..EmbDim |-> (p.a[j] - p.b[j]) * (p.a[j] - p.b[j])]))}

NoResult == [num |-> 0, den |-> 0]

NoStep == [read1 |-> -1, read2 |-> -1, loss |-> -1, objective |-> {}]

ScriptIdle ==
    /\ pc = "idle" /\ n_train = 0 /\ version = 0 /\ epoch_it = 0 /\ epoch = -1
    /\ n_batches = 0 /\ sections = <<>> /\ batch_it = 0
    /\ epoch_loss = [terms |-> 0] /\ mean_loss = NoResult
    /\ step = NoStep
    /\ evals = <<>> /\ reports = <<>> /\ plot_count = 0

FnIdle ==
    /\ fn_pc = "idle" /\ target = <<>> /\ x1 = <<>> /\ x2 = <<>>
    /\ distance_vector = <<>> /\ average_loss = NoResult /\ out = <<>>
    /\ accuracy = NoResult /\ dist_ret = Scalar(0)

InitFn ==
    /\ ScriptIdle
    /\ fn_pc = "input"
    /\ \E n \in 1..MaxBatch : \E batch \in [1..n -> PairInputs] :
          /\ target = [i \in 1..n |-> batch[i].y]
          /\ x1 = [i \in 1..n |-> batch[i].a]
          /\ x2 = [i \in 1..n |-> batch[i].b]
    /\ distance_vector = <<>> /\ average_loss = NoResult /\ out = <<>>
    /\ accuracy = NoResult /\ dist_ret = Scalar(0)

CallSimnetLoss ==
    /\ fn_pc = "input"
    /\ LET r == simnet_loss(target, x1, x2)
       IN  /\ distance_vector' = r.distance_vector
           /\ average_loss' = r.average_loss
    /\ fn_pc' = "simnet_loss"
    /\ UNCHANGED <<target, x1, x2, out, accuracy, dist_ret, script_vars>>

CallTestStep ==
    /\ fn_pc = "input"
    /\ LET r == test_step(x1, x2, target)
       IN  /\ out' = r.out
           /\ accuracy' = r.accuracy
    /\ fn_pc' = "test_step"
    /\ UNCHANGED <<target, x1, x2, distance_vector, average_loss, dist_ret, script_vars>>

\* Encoder.distance handed the whole batch of differences at once, for the
\* batches whose column sums have a square root the fixed point holds exactly
CallDistance ==
    /\ fn_pc = "input"
    /\ \A j \in 1..EmbDim :
          IsSquare(ReduceSum0(Pow2(Matrix(Sub(x1, x2)))).val[j])
    /\ dist_ret' = distance(Matrix(Sub(x1, x2)))
    /\ fn_pc' = "distance"
    /\ UNCHANGED <<target, x1, x2, distance_vector, average_loss, out, accuracy, script_vars>>

NextFn == CallSimnetLoss \/ CallTestStep \/ CallDistance

SpecFn == InitFn /\ [][NextFn]_vars

\* ================================================================ the script
\* the training-set sizes load_and_split may return: around every multiple of
\* batch_size up to MaxBatches, and the 100-batch set
ScenarioTrain == 100 * batch_size
TrainSizes ==
    {k * batch_size + r : k \in 0..MaxBatches, r \in {0, 1, batch_size - 1}}
        \cup {ScenarioTrain}

\* range(n) counted from one
Range_from1(n) == [i \in 1..n |-> i]

\* range(n), as the sequence of values the for loop takes
Range(n) == [i \in 1..n |-> i - 1]

\* int(a / b) for a >= 0, b > 0
IntDiv(a, b) == a \div b

\* a split into runs of n \div k indices, the rest in a run of its own
ArraySplit_chunks(n, k) ==
    LET each == n \div k
        runs == IF n % k = 0 THEN k ELSE k + 1
    IN  [s \in 1..runs |->
            [start |-> (s - 1) * each,
             size |-> IF s <= k THEN each ELSE n % k]]

\* np.array_split(np.arange(n), k) for k > 0: k sections, the first n % k of
\* them one index longer
ArraySplit(n, k) ==
    LET each == n \div k
        extras == n % k
    IN  [s \in 1..k |->
            [start |-> (s - 1) * each + (IF s - 1 < extras THEN s - 1 ELSE extras),
             size |-> IF s <= extras THEN each + 1 ELSE each]]

\* optimizer.apply_gradients run twice
ApplyGradients_twice(v) == v + 2

\* optimizer.apply_gradients: one update of every trainable variable
ApplyGradients(v) == v + 1

\* test_step and make_predict only call the model
ParamsAfterTestStep(v) == v

\* the layers built with kernel_regularizer=l2(0.01), as the losses Keras
\* collects for them in model.losses
RegularizationLosses == {"l2(cv.kernel)", "l2(cv2.kernel)", "l2(dense.kernel)"}

\* the scalar train_step hands to tape.gradient: the value of simnet_loss
TrainObjective == {"simnet_loss"}

\* what the class Encoder defines
EncoderAttributes == {"__init__", "call", "distance", "make_predict"}

Init ==
    /\ FnIdle
    /\ pc = "load" /\ n_train = 0 /\ version = 0 /\ epoch_it = 0 /\ epoch = -1
    /\ n_batches = 0 /\ sections = <<>> /\ batch_it = 0
    /\ epoch_loss = [terms |-> 0] /\ mean_loss = NoResult
    /\ step = NoStep
    /\ evals = <<>> /\ reports = <<>> /\ plot_count = 0

\* lines 122-125
Load ==
    /\ pc = "load"
    /\ n_train' \in TrainSizes
    /\ pc' = "build"
    /\ UNCHANGED <<version, epoch_it, epoch, n_batches, sections, batch_it,
                   epoch_loss, mean_loss, step, evals, reports, plot_count, fn_vars>>

\* lines 128-131
Build ==
    /\ pc = "build"
    /\ version' = 0
    /\ pc' = "for_epoch"
    /\ UNCHANGED <<n_train, epoch_it, epoch, n_batches, sections, batch_it,
                   epoch_loss, mean_loss, step, evals, reports, plot_count, fn_vars>>

\* lines 133-136: the loop takes its next epoch and splits the training set
EpochBegin ==
    /\ pc = "for_epoch"
    /\ epoch_it < Len(Range(n_epoch))
    /\ IntDiv(n_train, batch_size) > 0
    /\ epoch' = Range(n_epoch)[epoch_it + 1]
    /\ epoch_it' = epoch_it + 1
    /\ epoch_loss' = [terms |-> 0]
    /\ n_batches' = IntDiv(n_train, batch_size)
    /\ sections' = ArraySplit(n_train, IntDiv(n_train, batch_size))
    /\ batch_it' = 0
    /\ evals' = <<>>
    /\ pc' = "for_batch"
    /\ UNCHANGED <<n_train, version, mean_loss, step, reports, plot_count, fn_vars>>

\* lines 133-136 with fewer than batch_size pairs: np.array_split raises
\* ValueError on zero sections
EpochSplitError ==
    /\ pc = "for_epoch"
    /\ epoch_it < Len(Range(n_epoch))
    /\ IntDiv(n_train, batch_size) <= 0
    /\ epoch' = Range(n_epoch)[epoch_it + 1]
    /\ epoch_it' = epoch_it + 1
    /\ epoch_loss' = [terms |-> 0]
    /\ n_batches' = IntDiv(n_train, batch_size)
    /\ pc' = "error"
    /\ UNCHANGED <<n_train, version, sections, batch_it, mean_loss, step, evals,
                   reports, plot_count, fn_vars>>

\* line 133: range(n_epoch) is exhausted
EpochLoopExit ==
    /\ pc = "for_epoch"
    /\ epoch_it >= Len(Range(n_epoch))
    /\ pc' = "visualize"
    /\ UNCHANGED <<n_train, version, epoch_it, epoch, n_batches, sections, batch_it,
                   epoch_loss, mean_loss, step, evals, reports, plot_count, fn_vars>>

\* lines 136-138: the inner loop takes its next section
BatchBegin ==
    /\ pc = "for_batch"
    /\ batch_it < Len(sections)
    /\ batch_it' = batch_it + 1
    /\ step' = NoStep
    /\ pc' = "forward1"
    /\ UNCHANGED <<n_train, version, epoch_it, epoch, n_batches, sections,
                   epoch_loss, mean_loss, evals, reports, plot_count, fn_vars>>

\* line 97
TrainForward1 ==
    /\ pc = "forward1"
    /\ step' = [step EXCEPT !.read1 = version]
    /\ pc' = "forward2"
    /\ UNCHANGED <<n_train, version, epoch_it, epoch, n_batches, sections, batch_it,
                   epoch_loss, mean_loss, evals, reports, plot_count, fn_vars>>

\* line 98
TrainForward2 ==
    /\ pc = "forward2"
    /\ step' = [step EXCEPT !.read2 = version]
    /\ pc' = "loss"
    /\ UNCHANGED <<n_train, version, epoch_it, epoch, n_batches, sections, batch_it,
                   epoch_loss, mean_loss, evals, reports, plot_count, fn_vars>>

\* line 99
TrainLoss ==
    /\ pc = "loss"
    /\ step' = [step EXCEPT !.loss = step.read2, !.objective = TrainObjective]
    /\ pc' = "apply"
    /\ UNCHANGED <<n_train, version, epoch_it, epoch, n_batches, sections, batch_it,
                   epoch_loss, mean_loss, evals, reports, plot_count, fn_vars>>

\* lines 100-101
TrainApply ==
    /\ pc = "apply"
    /\ version' = ApplyGradients(version)
    /\ pc' = "accumulate"
    /\ UNCHANGED <<n_train, epoch_it, epoch, n_batches, sections, batch_it,
                   epoch_loss, mean_loss, step, evals, reports, plot_count, fn_vars>>

\* line 139: epoch_loss += the loss train_step returned
Accumulate ==
    /\ pc = "accumulate"
    /\ epoch_loss' = [terms |-> epoch_loss.terms + 1]
    /\ pc' = "for_batch"
    /\ UNCHANGED <<n_train, version, epoch_it, epoch, n_batches, sections, batch_it,
                   mean_loss, step, evals, reports, plot_count, fn_vars>>

\* line 141, once the sections are exhausted
Divide ==
    /\ pc = "for_batch"
    /\ batch_it >= Len(sections)
    /\ mean_loss' = [num |-> epoch_loss.terms, den |-> n_batches]
    /\ pc' = "eval_train"
    /\ UNCHANGED <<n_train, version, epoch_it, epoch, n_batches, sections, batch_it,
                   epoch_loss, step, evals, reports, plot_count, fn_vars>>

\* line 142
EvalTrain ==
    /\ pc = "eval_train"
    /\ evals' = Append(evals, [set |-> "train", read |-> version])
    /\ version' = ParamsAfterTestStep(version)
    /\ pc' = "eval_val"
    /\ UNCHANGED <<n_train, epoch_it, epoch, n_batches, sections, batch_it,
                   epoch_loss, mean_loss, step, reports, plot_count, fn_vars>>

\* line 143
EvalVal ==
    /\ pc = "eval_val"
    /\ evals' = Append(evals, [set |-> "test", read |-> version])
    /\ version' = ParamsAfterTestStep(version)
    /\ pc' = "print"
    /\ UNCHANGED <<n_train, epoch_it, epoch, n_batches, sections, batch_it,
                   epoch_loss, mean_loss, step, reports, plot_count, fn_vars>>

\* lines 144-145
Report ==
    /\ pc = "print"
    /\ reports' = Append(reports, [epoch |-> epoch, loss |-> mean_loss,
                                   evals |-> evals, at |-> version])
    /\ pc' = "for_epoch"
    /\ UNCHANGED <<n_train, version, epoch_it, epoch, n_batches, sections, batch_it,
                   epoch_loss, mean_loss, step, evals, plot_count, fn_vars>>

\* lines 148-154: model.call_encoder is looked up on the Encoder; the embedding,
\* t-SNE and plot_embedding follow only when the lookup succeeds
Visualize ==
    /\ pc = "visualize"
    /\ IF "call_encoder" \in EncoderAttributes
         THEN plot_count' = plot_count + 1 /\ pc' = "done"
         ELSE plot_count' = plot_count /\ pc' = "error"
    /\ UNCHANGED <<n_train, version, epoch_it, epoch, n_batches, sections, batch_it,
                   epoch_loss, mean_loss, step, evals, reports, fn_vars>>

Next ==
    \/ Load \/ Build
    \/ EpochBegin \/ EpochSplitError \/ EpochLoopExit
    \/ BatchBegin \/ TrainForward1 \/ TrainForward2 \/ TrainLoss \/ TrainApply
    \/ Accumulate \/ Divide
    \/ EvalTrain \/ EvalVal \/ Report
    \/ Visualize

Spec == Init /\ [][Next]_vars

\* ===================================================== function-level claims
\* The Euclidean norm of a vector, and the distance of pair i of the batch
Norm(v) == CHOOSE r \in 0..SumSeq([j \in 1..Len(v) |-> v[j] * v[j]]) :
              r * r = SumSeq([j \in 1..Len(v) |-> v[j] * v[j]])
PairDist(i) == Norm([j \in 1..EmbDim |-> x1[i][j] - x2[i][j]])
BatchLen == Len(target)

\* the per-pair contrastive loss, in 1/One^2 units
Contrastive(y, d) ==
    IF y = 1 THEN d * d
    ELSE IF d >= One THEN 0 ELSE (One - d) * (One - d)

\* C1: simnet_loss returns (1/N) * sum over i of the per-pair contrastive loss
\* of pair i, each label combined only with the distance of its own pair.
C1_BatchAverage ==
    fn_pc = "simnet_loss" =>
        /\ average_loss.den > 0
        /\ average_loss.num * BatchLen =
              SumSeq([i \in 1..BatchLen |-> Contrastive(target[i], PairDist(i))])
                 * average_loss.den

\* C2: on a batch of one pair simnet_loss returns d^2 for y = 1 and
\* max(0, 1 - d)^2 for y = 0; a dissimilar pair at or beyond the margin
\* (d >= 1, d = 1 included) has loss 0.
C2_SinglePair ==
    (fn_pc = "simnet_loss" /\ BatchLen = 1) =>
        /\ average_loss.den > 0
        /\ target[1] = 1 =>
              average_loss.num = PairDist(1) * PairDist(1) * average_loss.den
        /\ (target[1] = 0 /\ PairDist(1) < One) =>
              average_loss.num =
                 (One - PairDist(1)) * (One - PairDist(1)) * average_loss.den
        /\ (target[1] = 0 /\ PairDist(1) >= One) => average_loss.num = 0

\* a dissimilar single pair beyond the margin has been scored
C2_Witness ==
    /\ fn_pc = "simnet_loss" /\ BatchLen = 1
    /\ target[1] = 0 /\ PairDist(1) > One /\ average_loss.num = 0

Matches == {i \in 1..BatchLen : out[i] = target[i]}

\* C3: evaluation predicts 0 for a pair whose distance is <= 0.5 and 1
\* otherwise, and the accuracy is the fraction of pairs whose prediction
\* equals the label: 1.0 when all agree, 0.0 when none does.
C3_Accuracy ==
    fn_pc = "test_step" =>
        /\ Len(out) = BatchLen
        /\ \A i \in 1..BatchLen :
              out[i] = IF PairDist(i) <= Threshold THEN 0 ELSE 1
        /\ accuracy.den > 0
        /\ accuracy.num * BatchLen = Cardinality(Matches) * accuracy.den
        /\ Matches = 1..BatchLen => accuracy.num = accuracy.den
        /\ Matches = {} => accuracy.num = 0

\* a batch with a pair exactly at the threshold, scored partly right
C3_Witness ==
    /\ fn_pc = "test_step" /\ BatchLen = 2
    /\ \E i \in 1..BatchLen : PairDist(i) = Threshold /\ out[i] = 0
    /\ \E i \in 1..BatchLen : PairDist(i) > Threshold /\ out[i] = 1
    /\ Cardinality(Matches) = 1 /\ 2 * accuracy.num = accuracy.den

Difference == Sub(x1, x2)

\* C4, as claimed: Encoder.distance handed an N x D array returns N scalars,
\* the i-th the Euclidean norm of row i.
C4_PerRowOnBatch ==
    fn_pc = "distance" =>
        /\ dist_ret.rank = 1
        /\ Len(dist_ret.val) = BatchLen
        /\ \A i \in 1..BatchLen : dist_ret.val[i] = PairDist(i)

\* C4, amended: Encoder.distance sums along axis 0 of what it is handed.
\* Called once per row through map_fn, as simnet_loss calls it, it yields N
\* scalars, the i-th the norm of row i; handed the N x D array itself it
\* yields D values, the j-th the norm of column j.
C4_PerRowThroughMap ==
    /\ fn_pc = "simnet_loss" =>
          /\ Len(distance_vector) = BatchLen
          /\ \A i \in 1..BatchLen : distance_vector[i] = PairDist(i)
    /\ fn_pc = "distance" =>
          /\ dist_ret.rank = 1
          /\ Len(dist_ret.val) = EmbDim
          /\ \A j \in 1..EmbDim :
                dist_ret.val[j] = Norm([i \in 1..BatchLen |-> Difference[i][j]])

\* two rows of different, non-axis norm went through the mapped call
C4_Witness ==
    /\ fn_pc = "simnet_loss" /\ BatchLen = 2
    /\ distance_vector[1] # distance_vector[2]
    /\ \E i \in 1..BatchLen : \A j \in 1..EmbDim : Difference[i][j] # 0

ZeroLossBatch ==
    \A i \in 1..BatchLen :
        /\ target[i] = 1 => PairDist(i) = 0
        /\ target[i] = 0 => PairDist(i) >= One

\* C10: a label-1 pair is scored correct only when its distance is > 0.5 and
\* a label-0 pair only when it is <= 0.5, so a batch whose distances make the
\* contrastive loss zero (0 for label 1, >= 1 for label 0) has accuracy 0.0.
C10_InverseConvention ==
    fn_pc = "test_step" =>
        /\ \A i \in 1..BatchLen :
              (i \in Matches) <=>
                 \/ target[i] = 1 /\ PairDist(i) > Threshold
                 \/ target[i] = 0 /\ PairDist(i) <= Threshold
        /\ ZeroLossBatch => (accuracy.den > 0 /\ accuracy.num = 0)
        /\ simnet_loss(target, x1, x2).average_loss.num = 0 => accuracy.num = 0

\* a perfectly separated batch holding both labels was scored 0.0
C10_Witness ==
    /\ fn_pc = "test_step" /\ BatchLen = 2
    /\ target[1] = 1 /\ target[2] = 0
    /\ ZeroLossBatch
    /\ accuracy.num = 0 /\ accuracy.den = 2

\* ========================================================== script claims
InEpoch == pc \in {"for_batch", "forward1", "forward2", "loss", "apply",
                   "accumulate", "eval_train", "eval_val", "print"}
InPostlude == pc \in {"eval_train", "eval_val", "print"}
TrainingComplete == Len(reports) = n_epoch /\ pc \in {"visualize", "done", "error"}

\* C5: in every epoch the number of train_step losses accumulated into
\* epoch_loss equals n_batches = floor(N / batch_size), the value epoch_loss is
\* divided by; with batch_size = 180 and N = 18000 it is exactly 100.
C5_BatchCount ==
    InPostlude =>
        /\ n_train >= batch_size
        /\ epoch_loss.terms = n_batches
        /\ mean_loss.den = n_batches
        /\ n_batches * batch_size <= n_train
        /\ n_train < (n_batches + 1) * batch_size
        /\ (n_train = 18000 /\ batch_size = 180) => epoch_loss.terms = 100

\* the 18000-pair set was averaged over its 100 batches
C5_Witness ==
    /\ pc = "eval_train" /\ n_train = 18000
    /\ epoch_loss.terms = 100 /\ mean_loss.den = 100

\* the updates applied when the script stands where it stands
UpdatesDue ==
    CASE pc \in {"load", "build"} -> 0
      [] pc \in {"forward1", "forward2", "loss", "apply"} ->
            epoch * n_batches + batch_it - 1
      [] pc \in {"for_batch", "accumulate"} -> epoch * n_batches + batch_it
      [] OTHER -> epoch_it * n_batches

\* C6: the parameters are updated exactly once per batch, by train_step and by
\* nothing else: both forward passes of a train_step read the same version,
\* the evaluation calls leave the parameters as they are, and after e
\* completed epochs exactly e * n_batches updates have been applied.
C6_OneUpdatePerBatch ==
    /\ version = UpdatesDue
    /\ pc \in {"loss", "apply", "accumulate"} =>
          (step.read1 = step.read2 /\ step.read1 = epoch * n_batches + batch_it - 1)
    /\ \A k \in 1..Len(evals) : evals[k].read = epoch_it * n_batches
    /\ pc = "for_epoch" => version = Len(reports) * n_batches

\* two epochs of at least two batches each are complete
C6_Witness ==
    /\ pc = "for_epoch" /\ Len(reports) = 2 /\ n_batches >= 2
    /\ version = 2 * n_batches

\* C7: once all n_epoch epochs are complete the embedding of the training
\* images is computed and plot_embedding runs exactly once, with no error in
\* between.
C7_VisualizationRuns ==
    (Len(reports) = n_epoch /\ pc \in {"done", "error"}) =>
        (pc = "done" /\ plot_count = 1)

\* C8: the scalar train_step differentiates is the contrastive loss plus the
\* L2 penalty of every regularized kernel.
C8_RegularizedObjective ==
    pc \in {"apply", "accumulate"} =>
        /\ "simnet_loss" \in step.objective
        /\ RegularizationLosses \subseteq step.objective

\* C9: the postlude runs once per epoch, after the epoch's last update and
\* before the next epoch's first: train accuracy, then validation accuracy,
\* both with the parameters all updates of the epoch produced, then one
\* report; a complete run emits n_epoch reports, indices 0..n_epoch-1 in order.
C9_EpochPostlude ==
    /\ \A i \in 1..Len(reports) :
          /\ reports[i].epoch = i - 1
          /\ reports[i].at = i * n_batches
          /\ Len(reports[i].evals) = 2
          /\ reports[i].evals[1] = [set |-> "train", read |-> i * n_batches]
          /\ reports[i].evals[2] = [set |-> "test", read |-> i * n_batches]
    /\ InEpoch => Len(reports) = epoch
    /\ pc = "for_epoch" => Len(reports) = epoch_it
    /\ pc \in {"visualize", "done"} => Len(reports) = n_epoch
    /\ Len(reports) <= n_epoch

\* a complete run over at least two batches per epoch has reported
C9_Witness ==
    /\ pc = "visualize" /\ Len(reports) = n_epoch /\ n_batches >= 2
    /\ reports[n_epoch].epoch = n_epoch - 1

====
